---- MODULE Spec2Model ----
(***************************************************************************)
(* Model of the HivePoA desktop agent: the Kubo supervisor (kubo.rs) with  *)
(* its stats cache, daemon lifecycle and repository bootstrap, as driven   *)
(* by the HTTP control plane (api.rs).                                     *)
(***************************************************************************)
EXTENDS Integers, Sequences, FiniteSets, TLC

(***************************************************************************)
(* Bounds of the model and constants of the program.                       *)
(***************************************************************************)
\* STATS_CACHE_TTL, in seconds (kubo.rs line 37).
STATS_CACHE_TTL == 30
\* Last instant of the modelled clock, in seconds.
MaxTime == 31
\* Number of successful pin/unpin commands the node accepts in one run.
MaxMuts == 2

\* Iterations of the readiness poll in start_daemon (kubo.rs line 215).
PollAttempts == 20
\* Number of daemon processes spawned in one run.
MaxSpawns == 2
\* Number of stdout lines the daemons print in one run.
MaxLines == 2

\* Number of initialize() calls in one run.
MaxInitCalls == 3
\* Longest block_indices list of a challenge request.
MaxIndices == 2
\* add_earnings requests with a non-negative amount that are admitted.
MaxAdds == 2
\* Last second of the wall clock.
MaxWall == 2

\* Request-handling tasks of the control plane (one task per HTTP request,
\* all sharing the supervisor through kubo.read()).
Tasks == {"t1", "t2"}
\* Content identifiers the requests name.
Cids == {"cidA", "cidB"}
\* KuboManager instances a process may construct.
Sups == {"s1", "s2"}
\* Peer identities `ipfs init` may generate.
PeerIds == {"peerA", "peerB"}
\* Lines a daemon prints on its standard output.
Lines == {"Initializing daemon...", "API server listening on 5001",
          "Gateway server listening on 8080", "Daemon is ready"}

VARIABLES
    \* ---- Status cache (KuboManager.stats_cache) and the node it queries
    now,        \* the monotonic clock (Instant::now()), in seconds
    pinset,     \* the node's recursive pin set (ipfs pin ls -t recursive)
    nodeVer,    \* history: number of pin/unpin commands the node has applied
    cache,      \* stats_cache: None or Some(CachedStats)
    cacheVer,   \* history: nodeVer at the fetch that produced the cached stats
    doneVer,    \* history: highest nodeVer of a pin/unpin that has returned Ok
    pc,         \* per task: where the task is inside its handler
    loc,        \* per task: the locals of the running handler
    last,       \* history: the most recently returned call and its result
    \* ---- Daemon lifecycle (KuboManager.daemon, DAEMON_READY, the children)
    made,          \* the KuboManager instances that were constructed
    daemon,        \* per supervisor: self.daemon, 0 for None, else the child
    DAEMON_READY,  \* the process-wide static AtomicBool
    spc,           \* per supervisor: "idle", "polling" (inside start_daemon)
                   \* or "dropped"
    child,         \* per supervisor: the local `child` of a running
                   \* start_daemon, 0 outside it
    polls,         \* per supervisor: sleeps taken by the poll loop
    spawned,       \* number of children spawned so far (their ids: 1..spawned)
    owner,         \* per child: the supervisor that spawned it
    alive,         \* the children whose process has not exited
    pipe,          \* per child: stdout lines printed and not yet read
    printed,       \* number of lines printed so far
    marked,        \* history: the children that printed a ready marker
    crashed,       \* history: the children that exited on their own
    deadChecks,    \* history, per supervisor: is_running() calls made since
                   \* the tracked child exited on its own (counted up to 2)
    stopped,       \* history, per supervisor: stop_daemon has returned and
                   \* start_daemon has not been called since
    dlast,         \* history: the supervisor call that returned last
    \* ---- Repository bootstrap (KuboManager.peer_id, <repo_path>/config)
    config,        \* the repository config document, or Absent
    peer_id,       \* self.peer_id: "none" for None, else the identity
    initRuns,      \* history: runs of `ipfs init --profile=lowpower`
    cfgWrites,     \* history: fs::write calls on the config document
    icalls,        \* history: initialize() calls made
    ilast,         \* history: what happened last to the repository
    \* ---- Challenge responder (api.rs handle_challenge) and the node's blocks
    have,          \* the blocks <<cid, index>> the node can supply now
    ch,            \* the challenge being answered, or the last one answered
    cresp,         \* history: the response of the last answered challenge
    cfirst,        \* history: the first challenge that got a proof
    \* ---- Settings and earnings ledger (api.rs AgentConfig, the JSON file)
    agentFile,     \* ~/.spk-ipfs/agent-config.json: Missing, Corrupt or a
                   \* serialized AgentConfig
    wall,          \* the wall clock (SystemTime::now()), in seconds
    lpc,           \* per task: where it is inside a settings handler
    lloc,          \* per task: the handler's local `config` and request
    llast,         \* history: the settings handler that returned last
    adds,          \* history: add_earnings calls admitted so far
    okAdds,        \* history: add_earnings calls that returned 200
    okSum          \* history: sum of the amounts of those calls

cacheVars == <<now, pinset, nodeVer, cache, cacheVer, doneVer, pc, loc, last>>

daemonVars == <<made, daemon, DAEMON_READY, spc, child, polls, spawned, owner,
                alive, pipe, printed, marked, crashed, deadChecks, stopped,
                dlast>>

bootVars == <<config, peer_id, initRuns, cfgWrites, icalls, ilast>>

challengeVars == <<have, ch, cresp, cfirst>>

ledgerVars == <<agentFile, wall, lpc, lloc, llast, adds, okAdds, okSum>>

vars == <<cacheVars, daemonVars, bootVars, challengeVars, ledgerVars>>

\* Everything outside the status cache, left alone by its operations.
notCacheVars == <<daemonVars, bootVars, challengeVars, ledgerVars>>

\* Everything outside the daemon lifecycle, left alone by its operations.
notDaemonVars == <<cacheVars, bootVars, challengeVars, ledgerVars>>

\* Everything outside the repository bootstrap, left alone by its operations.
notBootVars == <<cacheVars, daemonVars, challengeVars, ledgerVars>>

\* Everything outside the challenge responder, left alone by its steps.
notChallengeVars == <<cacheVars, daemonVars, bootVars, ledgerVars>>

\* Everything outside the settings file and its handlers.
notLedgerVars == <<cacheVars, daemonVars, bootVars, challengeVars>>

(***************************************************************************)
(* Status cache: kubo.rs get_repo_stats / fetch_repo_stats /               *)
(* invalidate_stats_cache / pin / unpin, called from api.rs get_status,    *)
(* pin_content and unpin_content under the shared (read) supervisor lock.  *)
(***************************************************************************)
None == [tag |-> "None"]

Some(s, at) == [tag |-> "Some", stats |-> s, cached_at |-> at]

NoStats == [repo_size |-> 0, num_pins |-> 0]

\* The locals of a handler; cache0 (history) is the cache cell as the call
\* found it.
NoLoc == [op |-> "none", size |-> 0, stats |-> NoStats, ver |-> 0, need |-> 0,
          cache0 |-> None]

\* A returned call: op and ok are its name and outcome, stats the snapshot a
\* stats read returned, fetched whether it ran fetch_repo_stats, found the
\* cache cell it met ("absent", "fresh" or "expired"), ver the node version
\* its data was read at, need the node version of the last pin/unpin that
\* had returned Ok when the call started.
NoCall == [op |-> "none", ok |-> TRUE, stats |-> NoStats, fetched |-> FALSE,
           ver |-> 0, need |-> 0, found |-> "absent"]

\* The instants at which the clock is observed: around every multiple of the
\* TTL, so that ages of TTL-1, TTL and TTL+1 seconds all occur.
Instants == {t \in 0..MaxTime :
                t % STATS_CACHE_TTL \in {0, 1, STATS_CACHE_TTL - 1}}

Max(a, b) == IF a >= b THEN a ELSE b

\* Bytes the node stores for one pinned object.
CidSize(c) == IF c = "cidA" THEN 1 ELSE 2

RECURSIVE SumSizes(_)
SumSizes(S) == IF S = {} THEN 0
               ELSE LET c == CHOOSE x \in S : TRUE
                    IN  CidSize(c) + SumSizes(S \ {c})

\* `ipfs repo stat --size-only`: the RepoSize line of the node's answer.
NodeRepoSize(ps) == SumSizes(ps)

\* `ipfs pin ls -t recursive -q`: one non-empty line per pinned object.
NodePinCount(ps) == Cardinality(ps)

\* Mutant of CacheFresh: a snapshot exactly TTL seconds old still counts as
\* fresh.
CacheFreshInclusive(c, t) ==
    c.tag = "Some" /\ t - c.cached_at <= STATS_CACHE_TTL

\* cached.cached_at.elapsed() < STATS_CACHE_TTL
CacheFresh(c, t) == c.tag = "Some" /\ t - c.cached_at < STATS_CACHE_TTL

\* How a call finds the cache cell c at time t.
Found(c, t) == IF c.tag = "None" THEN "absent"
               ELSE IF CacheFresh(c, t) THEN "fresh" ELSE "expired"

\* How a read that went on to fetch had found the cache cell c.
Missed(c) == IF c.tag = "None" THEN "absent" ELSE "expired"

Returned(op, ok, stats, fetched, ver, need, found) ==
    [op |-> op, ok |-> ok, stats |-> stats, fetched |-> fetched,
     ver |-> ver, need |-> need, found |-> found]

\* get_repo_stats, first block: read the cache under the read guard.
CheckCache(t) ==
    /\ pc[t] = "idle"
    /\ IF CacheFresh(cache, now)
       THEN /\ last' = Returned("stats", TRUE, cache.stats, FALSE,
                                cacheVer, doneVer, "fresh")
            /\ UNCHANGED <<pc, loc>>
       ELSE /\ pc' = [pc EXCEPT ![t] = "fetch_size"]
            /\ loc' = [loc EXCEPT ![t] = [NoLoc EXCEPT !.op = "stats",
                                                       !.need = doneVer,
                                                       !.cache0 = cache]]
            /\ UNCHANGED last
    /\ UNCHANGED <<now, pinset, nodeVer, cache, cacheVer, doneVer>>
    /\ UNCHANGED notCacheVars

\* fetch_repo_stats, first command: repo stat --size-only.
FetchSize(t) ==
    /\ pc[t] = "fetch_size"
    /\ \E ok \in BOOLEAN :
         IF ok
         THEN /\ pc' = [pc EXCEPT ![t] = "fetch_pins"]
              /\ loc' = [loc EXCEPT ![t].size = NodeRepoSize(pinset),
                                    ![t].ver = nodeVer]
              /\ UNCHANGED last
         ELSE /\ pc' = [pc EXCEPT ![t] = "idle"]
              /\ loc' = [loc EXCEPT ![t] = NoLoc]
              /\ last' = Returned("stats", FALSE, NoStats, TRUE, 0,
                                  loc[t].need, Missed(loc[t].cache0))
    /\ UNCHANGED <<now, pinset, nodeVer, cache, cacheVer, doneVer>>
    /\ UNCHANGED notCacheVars

\* Mutant of FetchPins: a failed command clears the cache cell.
FetchPinsPoisons(t) ==
    /\ pc[t] = "fetch_pins"
    /\ \E ok \in BOOLEAN :
         IF ok
         THEN /\ pc' = [pc EXCEPT ![t] = "store"]
              /\ loc' = [loc EXCEPT ![t].stats =
                            [repo_size |-> loc[t].size,
                             num_pins |-> Cardinality(pinset)]]
              /\ UNCHANGED <<last, cache, cacheVer>>
         ELSE /\ pc' = [pc EXCEPT ![t] = "idle"]
              /\ loc' = [loc EXCEPT ![t] = [op |-> "none", size |-> 0,
                            stats |-> [repo_size |-> 0, num_pins |-> 0],
                            ver |-> 0, need |-> 0, cache0 |-> [tag |-> "None"]]]
              /\ last' = [op |-> "stats", ok |-> FALSE,
                          stats |-> [repo_size |-> 0, num_pins |-> 0],
                          fetched |-> TRUE, ver |-> 0, need |-> loc[t].need,
                          found |-> IF loc[t].cache0.tag = "None"
                                    THEN "absent" ELSE "expired"]
              /\ cache' = [tag |-> "None"]
              /\ cacheVer' = 0
    /\ UNCHANGED <<now, pinset, nodeVer, doneVer>>
    /\ UNCHANGED notCacheVars

\* fetch_repo_stats, second command: pin ls -t recursive -q.
FetchPins(t) ==
    /\ pc[t] = "fetch_pins"
    /\ \E ok \in BOOLEAN :
         IF ok
         THEN /\ pc' = [pc EXCEPT ![t] = "store"]
              /\ loc' = [loc EXCEPT ![t].stats =
                            [repo_size |-> loc[t].size,
                             num_pins |-> NodePinCount(pinset)]]
              /\ UNCHANGED last
         ELSE /\ pc' = [pc EXCEPT ![t] = "idle"]
              /\ loc' = [loc EXCEPT ![t] = NoLoc]
              /\ last' = Returned("stats", FALSE, NoStats, TRUE, 0,
                                  loc[t].need, Missed(loc[t].cache0))
    /\ UNCHANGED <<now, pinset, nodeVer, cache, cacheVer, doneVer>>
    /\ UNCHANGED notCacheVars

\* get_repo_stats, last block: store the snapshot under the write guard and
\* return it.
StoreCache(t) ==
    /\ pc[t] = "store"
    /\ cache' = Some(loc[t].stats, now)
    /\ cacheVer' = loc[t].ver
    /\ last' = Returned("stats", TRUE, loc[t].stats, TRUE,
                        loc[t].ver, loc[t].need,
                        Missed(loc[t].cache0))
    /\ pc' = [pc EXCEPT ![t] = "idle"]
    /\ loc' = [loc EXCEPT ![t] = NoLoc]
    /\ UNCHANGED <<now, pinset, nodeVer, doneVer>>
    /\ UNCHANGED notCacheVars

\* pin: run `ipfs pin add --progress cid`; an error returns at once.
PinCmd(t) ==
    /\ pc[t] = "idle"
    /\ \E cid \in Cids, ok \in BOOLEAN :
         IF ok
         THEN /\ nodeVer < MaxMuts
              /\ pinset' = pinset \cup {cid}
              /\ nodeVer' = nodeVer + 1
              /\ pc' = [pc EXCEPT ![t] = "invalidate"]
              /\ loc' = [loc EXCEPT ![t] = [NoLoc EXCEPT !.op = "pin",
                                                         !.ver = nodeVer + 1]]
              /\ UNCHANGED last
         ELSE /\ last' = Returned("pin", FALSE, NoStats, FALSE, 0, 0,
                                  Found(cache, now))
              /\ UNCHANGED <<pinset, nodeVer, pc, loc>>
    /\ UNCHANGED <<now, cache, cacheVer, doneVer>>
    /\ UNCHANGED notCacheVars

\* unpin: run `ipfs pin rm cid`; the node refuses an object it has not pinned.
UnpinCmd(t) ==
    /\ pc[t] = "idle"
    /\ \E cid \in Cids, ok \in BOOLEAN :
         IF ok
         THEN /\ nodeVer < MaxMuts
              /\ cid \in pinset
              /\ pinset' = pinset \ {cid}
              /\ nodeVer' = nodeVer + 1
              /\ pc' = [pc EXCEPT ![t] = "invalidate"]
              /\ loc' = [loc EXCEPT ![t] = [NoLoc EXCEPT !.op = "unpin",
                                                         !.ver = nodeVer + 1]]
              /\ UNCHANGED last
         ELSE /\ last' = Returned("unpin", FALSE, NoStats, FALSE, 0, 0,
                                  Found(cache, now))
              /\ UNCHANGED <<pinset, nodeVer, pc, loc>>
    /\ UNCHANGED <<now, cache, cacheVer, doneVer>>
    /\ UNCHANGED notCacheVars

\* Mutant of InvalidateStatsCache: pin/unpin returns Ok without clearing the
\* cache cell.
InvalidateKeepsCache(t) ==
    /\ pc[t] = "invalidate"
    /\ doneVer' = IF doneVer >= loc[t].ver THEN doneVer ELSE loc[t].ver
    /\ last' = [op |-> loc[t].op, ok |-> TRUE,
                stats |-> [repo_size |-> 0, num_pins |-> 0],
                fetched |-> FALSE, ver |-> loc[t].ver, need |-> 0,
                found |-> Found(cache, now)]
    /\ pc' = [pc EXCEPT ![t] = "idle"]
    /\ loc' = [loc EXCEPT ![t] = [op |-> "none", size |-> 0,
                  stats |-> [repo_size |-> 0, num_pins |-> 0],
                  ver |-> 0, need |-> 0, cache0 |-> [tag |-> "None"]]]
    /\ UNCHANGED <<now, pinset, nodeVer, cache, cacheVer>>
    /\ UNCHANGED notCacheVars

\* invalidate_stats_cache, then the Ok return of pin/unpin.
InvalidateStatsCache(t) ==
    /\ pc[t] = "invalidate"
    /\ cache' = None
    /\ cacheVer' = 0
    /\ doneVer' = Max(doneVer, loc[t].ver)
    /\ last' = Returned(loc[t].op, TRUE, NoStats, FALSE, loc[t].ver, 0,
                        Found(cache, now))
    /\ pc' = [pc EXCEPT ![t] = "idle"]
    /\ loc' = [loc EXCEPT ![t] = NoLoc]
    /\ UNCHANGED <<now, pinset, nodeVer>>
    /\ UNCHANGED notCacheVars

\* Time passes.
Tick ==
    /\ \E t \in Instants : t > now /\ now' = t
    /\ UNCHANGED <<pinset, nodeVer, cache, cacheVer, doneVer, pc, loc, last>>
    /\ UNCHANGED notCacheVars

(***************************************************************************)
(* Daemon lifecycle: kubo.rs start_daemon / stop_daemon / is_running /     *)
(* Drop, the stdout reader thread, and the daemon processes themselves.    *)
(* start_daemon, stop_daemon and drop take &mut self, so on one supervisor *)
(* they run one at a time; the reader threads and the children run freely. *)
(***************************************************************************)
Children == 1..MaxSpawns

\* line.contains("Daemon is ready") || line.contains("API server listening")
\*   || line.contains("Gateway server listening")
IsReadyLine(line) ==
    line \in {"Daemon is ready", "API server listening on 5001",
              "Gateway server listening on 8080"}

\* is_running: self.daemon.is_some() && DAEMON_READY.load()
IsRunning(s) == daemon[s] # 0 /\ DAEMON_READY

\* A returned supervisor call: noop tells a start_daemon that found a child
\* tracked, or a stop_daemon or drop that found none; val is the answer of
\* is_running.
DReturned(s, op, ok, noop, val) ==
    [sup |-> s, op |-> op, ok |-> ok, noop |-> noop, val |-> val]

\* Mutant of StartDaemon: no early return when a child is already tracked.
StartDaemonAlwaysSpawns(s) ==
    /\ s \in made /\ spc[s] = "idle"
    /\ stopped' = [stopped EXCEPT ![s] = FALSE]
    /\ \E ok \in BOOLEAN :
         IF ok
         THEN /\ spawned < MaxSpawns
              /\ spawned' = spawned + 1
              /\ owner' = [owner EXCEPT ![spawned + 1] = s]
              /\ alive' = alive \cup {spawned + 1}
              /\ child' = [child EXCEPT ![s] = spawned + 1]
              /\ polls' = [polls EXCEPT ![s] = 0]
              /\ spc' = [spc EXCEPT ![s] = "polling"]
              /\ UNCHANGED dlast
         ELSE /\ dlast' = [sup |-> s, op |-> "start_daemon", ok |-> FALSE,
                           noop |-> FALSE, val |-> FALSE]
              /\ UNCHANGED <<spc, child, polls, spawned, owner, alive>>
    /\ UNCHANGED <<made, daemon, DAEMON_READY, pipe, printed, marked, crashed,
                   deadChecks>>
    /\ UNCHANGED notDaemonVars

\* start_daemon up to the spawn: the early return, a failed spawn, or a new
\* child with its reader thread.
StartDaemon(s) ==
    /\ s \in made /\ spc[s] = "idle"
    /\ stopped' = [stopped EXCEPT ![s] = FALSE]
    /\ IF daemon[s] # 0
       THEN /\ dlast' = DReturned(s, "start_daemon", TRUE, TRUE, FALSE)
            /\ UNCHANGED <<spc, child, polls, spawned, owner, alive>>
       ELSE \E ok \in BOOLEAN :
              IF ok
              THEN /\ spawned < MaxSpawns
                   /\ spawned' = spawned + 1
                   /\ owner' = [owner EXCEPT ![spawned + 1] = s]
                   /\ alive' = alive \cup {spawned + 1}
                   /\ child' = [child EXCEPT ![s] = spawned + 1]
                   /\ polls' = [polls EXCEPT ![s] = 0]
                   /\ spc' = [spc EXCEPT ![s] = "polling"]
                   /\ UNCHANGED dlast
              ELSE /\ dlast' = DReturned(s, "start_daemon", FALSE, FALSE, FALSE)
                   /\ UNCHANGED <<spc, child, polls, spawned, owner, alive>>
    /\ UNCHANGED <<made, daemon, DAEMON_READY, pipe, printed, marked, crashed,
                   deadChecks>>
    /\ UNCHANGED notDaemonVars

\* Mutant of PollSleep: the loop sleeps without looking at the flag.
PollSleepIgnoresFlag(s) ==
    /\ s \in made /\ spc[s] = "polling"
    /\ polls[s] < PollAttempts
    /\ polls' = [polls EXCEPT ![s] = polls[s] + 1]
    /\ UNCHANGED <<made, daemon, DAEMON_READY, spc, child, spawned, owner,
                   alive, pipe, printed, marked, crashed, deadChecks, stopped,
                   dlast>>
    /\ UNCHANGED notDaemonVars

\* One iteration of the poll loop that finds the flag clear and sleeps.
PollSleep(s) ==
    /\ s \in made /\ spc[s] = "polling"
    /\ polls[s] < PollAttempts
    /\ ~DAEMON_READY
    /\ polls' = [polls EXCEPT ![s] = polls[s] + 1]
    /\ UNCHANGED <<made, daemon, DAEMON_READY, spc, child, spawned, owner,
                   alive, pipe, printed, marked, crashed, deadChecks, stopped,
                   dlast>>
    /\ UNCHANGED notDaemonVars

\* The loop ends, on the flag or on the budget; the child becomes self.daemon
\* and start_daemon returns Ok.
PollDone(s) ==
    /\ s \in made /\ spc[s] = "polling"
    /\ DAEMON_READY \/ polls[s] = PollAttempts
    /\ daemon' = [daemon EXCEPT ![s] = child[s]]
    /\ child' = [child EXCEPT ![s] = 0]
    /\ polls' = [polls EXCEPT ![s] = 0]
    /\ spc' = [spc EXCEPT ![s] = "idle"]
    /\ deadChecks' = [deadChecks EXCEPT ![s] = 0]
    /\ dlast' = DReturned(s, "start_daemon", TRUE, FALSE, FALSE)
    /\ UNCHANGED <<made, DAEMON_READY, spawned, owner, alive, pipe, printed,
                   marked, crashed, stopped>>
    /\ UNCHANGED notDaemonVars

\* Mutant of StopDaemon: the child is killed through a borrowed handle, which
\* stays in self.daemon.
StopDaemonKeepsHandle(s) ==
    /\ s \in made /\ spc[s] = "idle"
    /\ IF daemon[s] # 0
       THEN /\ alive' = alive \ {daemon[s]}
            /\ DAEMON_READY' = FALSE
            /\ dlast' = [sup |-> s, op |-> "stop_daemon", ok |-> TRUE,
                         noop |-> FALSE, val |-> FALSE]
       ELSE /\ dlast' = [sup |-> s, op |-> "stop_daemon", ok |-> TRUE,
                         noop |-> TRUE, val |-> FALSE]
            /\ UNCHANGED <<alive, DAEMON_READY>>
    /\ stopped' = [stopped EXCEPT ![s] = TRUE]
    /\ UNCHANGED <<made, daemon, deadChecks, spc, child, polls, spawned, owner,
                   pipe, printed, marked, crashed>>
    /\ UNCHANGED notDaemonVars

\* stop_daemon: take the handle, kill, wait, clear the flag.
StopDaemon(s) ==
    /\ s \in made /\ spc[s] = "idle"
    /\ IF daemon[s] # 0
       THEN /\ alive' = alive \ {daemon[s]}
            /\ DAEMON_READY' = FALSE
            /\ daemon' = [daemon EXCEPT ![s] = 0]
            /\ deadChecks' = [deadChecks EXCEPT ![s] = 0]
            /\ dlast' = DReturned(s, "stop_daemon", TRUE, FALSE, FALSE)
       ELSE /\ dlast' = DReturned(s, "stop_daemon", TRUE, TRUE, FALSE)
            /\ UNCHANGED <<alive, DAEMON_READY, daemon, deadChecks>>
    /\ stopped' = [stopped EXCEPT ![s] = TRUE]
    /\ UNCHANGED <<made, spc, child, polls, spawned, owner, pipe, printed,
                   marked, crashed>>
    /\ UNCHANGED notDaemonVars

\* A request handler (get_status, handle_challenge) asks is_running().
IsRunningCall(s) ==
    /\ s \in made /\ spc[s] = "idle"
    /\ dlast' = DReturned(s, "is_running", TRUE, FALSE, IsRunning(s))
    /\ deadChecks' =
         [deadChecks EXCEPT ![s] =
            IF daemon[s] # 0 /\ daemon[s] \in crashed /\ deadChecks[s] < 2
            THEN deadChecks[s] + 1 ELSE deadChecks[s]]
    /\ UNCHANGED <<made, daemon, DAEMON_READY, spc, child, polls, spawned,
                   owner, alive, pipe, printed, marked, crashed, stopped>>
    /\ UNCHANGED notDaemonVars

\* Mutant of Drop: only a daemon that is_running() is killed.
DropOnlyIfRunning(s) ==
    /\ s \in made /\ spc[s] = "idle"
    /\ spc' = [spc EXCEPT ![s] = "dropped"]
    /\ IF daemon[s] # 0 /\ DAEMON_READY
       THEN /\ alive' = alive \ {daemon[s]}
            /\ daemon' = [daemon EXCEPT ![s] = 0]
            /\ dlast' = [sup |-> s, op |-> "drop", ok |-> TRUE,
                         noop |-> FALSE, val |-> FALSE]
       ELSE /\ dlast' = [sup |-> s, op |-> "drop", ok |-> TRUE,
                         noop |-> TRUE, val |-> FALSE]
            /\ UNCHANGED <<alive, daemon>>
    /\ UNCHANGED <<made, DAEMON_READY, child, polls, spawned, owner, pipe,
                   printed, marked, crashed, deadChecks, stopped>>
    /\ UNCHANGED notDaemonVars

\* impl Drop: kill and reap the tracked child, if any.
Drop(s) ==
    /\ s \in made /\ spc[s] = "idle"
    /\ spc' = [spc EXCEPT ![s] = "dropped"]
    /\ IF daemon[s] # 0
       THEN /\ alive' = alive \ {daemon[s]}
            /\ daemon' = [daemon EXCEPT ![s] = 0]
            /\ dlast' = DReturned(s, "drop", TRUE, FALSE, FALSE)
       ELSE /\ dlast' = DReturned(s, "drop", TRUE, TRUE, FALSE)
            /\ UNCHANGED <<alive, daemon>>
    /\ UNCHANGED <<made, DAEMON_READY, child, polls, spawned, owner, pipe,
                   printed, marked, crashed, deadChecks, stopped>>
    /\ UNCHANGED notDaemonVars

\* A running daemon prints a line on its stdout.
ChildPrints(c) ==
    /\ c \in alive
    /\ printed < MaxLines
    /\ \E line \in Lines :
         /\ pipe' = [pipe EXCEPT ![c] = Append(pipe[c], line)]
         /\ marked' = IF IsReadyLine(line) THEN marked \cup {c} ELSE marked
    /\ printed' = printed + 1
    /\ UNCHANGED <<made, daemon, DAEMON_READY, spc, child, polls, spawned,
                   owner, alive, crashed, deadChecks, stopped, dlast>>
    /\ UNCHANGED notDaemonVars

\* A daemon exits or crashes on its own.
ChildExits(c) ==
    /\ c \in alive
    /\ alive' = alive \ {c}
    /\ crashed' = crashed \cup {c}
    /\ UNCHANGED <<made, daemon, DAEMON_READY, spc, child, polls, spawned,
                   owner, pipe, printed, marked, deadChecks, stopped, dlast>>
    /\ UNCHANGED notDaemonVars

\* Mutant of ReaderStep: the reader thread reads only while start_daemon is
\* in its poll loop.
ReaderStepWhilePolling(c) ==
    /\ c \in 1..spawned
    /\ spc[owner[c]] = "polling"
    /\ pipe[c] # <<>>
    /\ pipe' = [pipe EXCEPT ![c] = Tail(pipe[c])]
    /\ DAEMON_READY' = IF IsReadyLine(Head(pipe[c])) THEN TRUE
                       ELSE DAEMON_READY
    /\ UNCHANGED <<made, daemon, spc, child, polls, spawned, owner, alive,
                   printed, marked, crashed, deadChecks, stopped, dlast>>
    /\ UNCHANGED notDaemonVars

\* The reader thread of child c takes the next line of its stdout.
ReaderStep(c) ==
    /\ c \in 1..spawned
    /\ pipe[c] # <<>>
    /\ pipe' = [pipe EXCEPT ![c] = Tail(pipe[c])]
    /\ DAEMON_READY' = IF IsReadyLine(Head(pipe[c])) THEN TRUE
                       ELSE DAEMON_READY
    /\ UNCHANGED <<made, daemon, spc, child, polls, spawned, owner, alive,
                   printed, marked, crashed, deadChecks, stopped, dlast>>
    /\ UNCHANGED notDaemonVars

DaemonInitWith(S) ==
    /\ made = S
    /\ daemon = [s \in Sups |-> 0]
    /\ DAEMON_READY = FALSE
    /\ spc = [s \in Sups |-> "idle"]
    /\ child = [s \in Sups |-> 0]
    /\ polls = [s \in Sups |-> 0]
    /\ spawned = 0
    /\ owner = [c \in Children |-> "none"]
    /\ alive = {}
    /\ pipe = [c \in Children |-> <<>>]
    /\ printed = 0
    /\ marked = {}
    /\ crashed = {}
    /\ deadChecks = [s \in Sups |-> 0]
    /\ stopped = [s \in Sups |-> FALSE]
    /\ dlast = DReturned("none", "none", TRUE, FALSE, FALSE)

\* The program constructs one KuboManager.
DaemonInit == DaemonInitWith({"s1"})

DaemonNext ==
    \/ \E s \in Sups : StartDaemon(s)
    \/ \E s \in Sups : PollSleep(s)
    \/ \E s \in Sups : PollDone(s)
    \/ \E s \in Sups : StopDaemon(s)
    \/ \E s \in Sups : IsRunningCall(s)
    \/ \E s \in Sups : Drop(s)
    \/ \E c \in Children : ChildPrints(c)
    \/ \E c \in Children : ChildExits(c)
    \/ \E c \in Children : ReaderStep(c)

(***************************************************************************)
(* Repository bootstrap: kubo.rs initialize / apply_desktop_config /       *)
(* read_peer_id. initialize takes &mut self and the repository has one     *)
(* writer, so a call runs start to end as one step.                        *)
(***************************************************************************)
\* No config document in the repository directory.
Absent == [tag |-> "Absent"]

\* The document `ipfs init` writes: a fresh identity, the node's defaults.
DefaultConfig(p) ==
    [tag |-> "Doc", valid |-> TRUE, PeerID |-> p, cors |-> "default",
     storage |-> "default", addresses |-> "default", connmgr |-> "default",
     routing |-> "default"]

\* apply_desktop_config: every key this system owns set, the rest kept.
DesktopConfig(doc) ==
    [doc EXCEPT !.cors = "desktop", !.storage = "desktop",
                !.addresses = "desktop", !.connmgr = "desktop",
                !.routing = "desktop"]

\* The steps of initialize() that can fail.
InitFailures == {"none", "mkdir", "init", "apply_read", "apply_write",
                 "read_peer"}

IReturned(ok, err) == [op |-> "initialize", ok |-> ok, err |-> err]

\* read_peer_id on a readable document: a parse error, or the identity, left
\* as it was when the document holds no Identity.PeerID string.
ReadPeerIdOk(doc) == doc.valid

PeerIdAfterRead(doc, old) == IF doc.PeerID # "none" THEN doc.PeerID ELSE old

\* initialize(), first branch: the config document exists.
InitializeExisting(fail) ==
    /\ config # Absent
    /\ fail \in {"none", "read_peer"}
    /\ IF fail = "none" /\ ReadPeerIdOk(config)
       THEN /\ peer_id' = PeerIdAfterRead(config, peer_id)
            /\ ilast' = IReturned(TRUE, "none")
       ELSE /\ ilast' = IReturned(FALSE, "read_peer")
            /\ UNCHANGED peer_id
    /\ UNCHANGED <<config, initRuns, cfgWrites>>

\* initialize(), second branch: create the directory, run `ipfs init`, apply
\* the desktop settings in one write, read the identity back.
InitializeFresh(fail) ==
    /\ config = Absent
    /\ \E p \in PeerIds :
         CASE fail = "mkdir" ->
                /\ ilast' = IReturned(FALSE, fail)
                /\ UNCHANGED <<config, peer_id, initRuns, cfgWrites>>
           [] fail = "init" ->
                /\ initRuns' = initRuns + 1
                /\ ilast' = IReturned(FALSE, fail)
                /\ UNCHANGED <<config, peer_id, cfgWrites>>
           [] fail \in {"apply_read", "apply_write"} ->
                /\ initRuns' = initRuns + 1
                /\ config' = DefaultConfig(p)
                /\ ilast' = IReturned(FALSE, fail)
                /\ UNCHANGED <<peer_id, cfgWrites>>
           [] fail = "read_peer" ->
                /\ initRuns' = initRuns + 1
                /\ config' = DesktopConfig(DefaultConfig(p))
                /\ cfgWrites' = cfgWrites + 1
                /\ ilast' = IReturned(FALSE, fail)
                /\ UNCHANGED peer_id
           [] fail = "none" ->
                /\ initRuns' = initRuns + 1
                /\ config' = DesktopConfig(DefaultConfig(p))
                /\ cfgWrites' = cfgWrites + 1
                /\ peer_id' = PeerIdAfterRead(config', peer_id)
                /\ ilast' = IReturned(TRUE, "none")

\* Mutant of Initialize: the repository is bootstrapped again although its
\* config document exists.
InitializeAlwaysBootstraps ==
    /\ icalls < MaxInitCalls
    /\ icalls' = icalls + 1
    /\ \E p \in PeerIds :
         /\ initRuns' = initRuns + 1
         /\ config' = DesktopConfig(DefaultConfig(p))
         /\ cfgWrites' = cfgWrites + 1
         /\ peer_id' = p
         /\ ilast' = [op |-> "initialize", ok |-> TRUE, err |-> "none"]
    /\ UNCHANGED notBootVars

\* initialize()
Initialize ==
    /\ icalls < MaxInitCalls
    /\ icalls' = icalls + 1
    /\ \E fail \in InitFailures :
         InitializeExisting(fail) \/ InitializeFresh(fail)
    /\ UNCHANGED notBootVars

\* Someone deletes the repository directory between two runs.
RepoRemoved ==
    /\ config # Absent
    /\ config' = Absent
    /\ ilast' = [op |-> "repo_removed", ok |-> TRUE, err |-> "none"]
    /\ UNCHANGED <<peer_id, initRuns, cfgWrites, icalls>>
    /\ UNCHANGED notBootVars

\* The repositories a supervisor may find when it is constructed: none, one
\* an earlier run bootstrapped (with or without the desktop settings, with
\* or without an identity string), or one whose document does not parse.
FoundConfigs ==
    {Absent}
    \cup {DefaultConfig(p) : p \in PeerIds \cup {"none"}}
    \cup {DesktopConfig(DefaultConfig(p)) : p \in PeerIds}
    \cup {[DefaultConfig("none") EXCEPT !.valid = FALSE]}

BootInitWith(docs) ==
    /\ config \in docs
    /\ peer_id = "none"
    /\ initRuns = 0
    /\ cfgWrites = 0
    /\ icalls = 0
    /\ ilast = [op |-> "none", ok |-> TRUE, err |-> "none"]

BootNext == Initialize \/ RepoRemoved

(***************************************************************************)
(* Challenge responder: api.rs handle_challenge.  The handler holds the    *)
(* shared supervisor lock from its first line to its return; it has no     *)
(* state of its own between requests.                                      *)
(***************************************************************************)
\* Block indices a request may name.
BlockIndices == {0, 1}

\* The salt a request carries, as the bytes of the salt string.
Salts == {<<9>>}

\* The block_indices lists: any order, repeats allowed, possibly empty.
IndexLists == UNION {[1..n -> BlockIndices] : n \in 0..MaxIndices}

\* The content the challenges are about.
Challenged == {"cidA"}

ChallengeRequests ==
    [cid : Challenged, salt : Salts, block_indices : IndexLists]

\* start_time.elapsed() when the response is built, counting one
\* millisecond for each get_block call the handler made.
Elapsed(fetched) == Len(fetched)

\* The bytes of block i of content c.  Content is addressed by its hash, so
\* a block's bytes never change.  The challenged content is a run of equal
\* bytes cut into blocks of unequal length.
BlockData(c, i) == [k \in 1..(i + 1) |-> 1]

\* KuboManager::get_block: the raw bytes of block i of content c, or an
\* error when the node cannot supply the block.
get_block(c, i) == IF <<c, i>> \in have
                   THEN [ok |-> TRUE, data |-> BlockData(c, i)]
                   ELSE [ok |-> FALSE, data |-> <<>>]

\* hex::encode(hasher.finalize()) for a hasher that was fed `bytes`:
\* SHA-256 taken as collision-free, so the digest stands for its input.
Sha256Hex(bytes) == <<"sha256", bytes>>

\* No challenge has been received.
NoChallenge == [pc |-> "idle",
                req |-> [cid |-> "none", salt |-> <<>>, block_indices |-> <<>>],
                pos |-> 0, hasher |-> <<>>,
                fed |-> <<>>, fetched |-> <<>>]

NoResponse == [status |-> 0]

\* The three JSON bodies handle_challenge builds.
NotRunningResponse(lat) ==
    [status |-> 503, success |-> FALSE, error |-> "IPFS daemon not running",
     proof |-> "", latency_ms |-> lat]

BlockFailedResponse(i, lat) ==
    [status |-> 404, success |-> FALSE,
     error |-> <<"Failed to fetch block", i>>, proof |-> "",
     latency_ms |-> lat]

ProofResponse(proof, lat) ==
    [status |-> 200, success |-> TRUE, proof |-> proof, latency_ms |-> lat]

\* No challenge has produced a proof yet.  `again` is the proof of the
\* latest later challenge that made the same request and got a proof.
NoFirst == [req |-> NoChallenge.req, proof |-> "", again |-> ""]

\* What the first proof, and a later one for the same request, leave in the
\* record of the first proof.
RecordProof(first, req, proof) ==
    IF first = NoFirst THEN [req |-> req, proof |-> proof, again |-> ""]
    ELSE IF first.req = req THEN [first EXCEPT !.again = proof]
    ELSE first

\* The supervisor instance the control plane shares (SharedKubo).
Shared == "s1"

\* Variant: the handler looks only at the child handle, not at the
\* readiness flag.
ChallengeBeginHandleOnly(req) ==
    /\ ch.pc = "idle"
    /\ IF daemon[Shared] = 0
       THEN /\ cresp' = NotRunningResponse(Elapsed(<<>>))
            /\ ch' = [NoChallenge EXCEPT !.req = req]
       ELSE /\ cresp' = NoResponse
            /\ ch' = [pc |-> "loop", req |-> req, pos |-> 1,
                      hasher |-> req.salt, fed |-> <<req.salt>>,
                      fetched |-> <<>>]
    /\ UNCHANGED <<have, cfirst>>
    /\ UNCHANGED notChallengeVars

\* Variant: one hasher shared by all requests, never re-created.
ChallengeBeginKeepsHasher(req) ==
    /\ ch.pc = "idle"
    /\ IF ~IsRunning(Shared)
       THEN /\ cresp' = NotRunningResponse(Elapsed(<<>>))
            /\ ch' = [NoChallenge EXCEPT !.req = req, !.hasher = ch.hasher]
       ELSE /\ cresp' = NoResponse
            /\ ch' = [pc |-> "loop", req |-> req, pos |-> 1,
                      hasher |-> ch.hasher \o req.salt,
                      fed |-> <<req.salt>>, fetched |-> <<>>]
    /\ UNCHANGED <<have, cfirst>>
    /\ UNCHANGED notChallengeVars

\* handle_challenge up to the loop: the running check, then a new hasher
\* that is fed the salt.
ChallengeBegin(req) ==
    /\ ch.pc = "idle"
    /\ IF ~IsRunning(Shared)
       THEN /\ cresp' = NotRunningResponse(Elapsed(<<>>))
            /\ ch' = [NoChallenge EXCEPT !.req = req]
       ELSE /\ cresp' = NoResponse
            /\ ch' = [pc |-> "loop", req |-> req, pos |-> 1,
                      hasher |-> req.salt, fed |-> <<req.salt>>,
                      fetched |-> <<>>]
    /\ UNCHANGED <<have, cfirst>>
    /\ UNCHANGED notChallengeVars

\* Variant: a block that cannot be fetched is skipped.
ChallengeFetchSkipsMissing ==
    /\ ch.pc = "loop"
    /\ ch.pos <= Len(ch.req.block_indices)
    /\ LET i == ch.req.block_indices[ch.pos]
           r == get_block(ch.req.cid, i)
       IN  IF r.ok
           THEN ch' = [ch EXCEPT !.hasher = @ \o r.data,
                                 !.fed = Append(@, r.data),
                                 !.fetched = Append(@, i),
                                 !.pos = @ + 1]
           ELSE ch' = [ch EXCEPT !.fetched = Append(@, i), !.pos = @ + 1]
    /\ UNCHANGED <<have, cresp, cfirst>>
    /\ UNCHANGED notChallengeVars

\* Variant: an index that was already fetched is not fetched again.
ChallengeFetchDedups ==
    /\ ch.pc = "loop"
    /\ ch.pos <= Len(ch.req.block_indices)
    /\ LET i == ch.req.block_indices[ch.pos]
           r == get_block(ch.req.cid, i)
           seen == \E k \in 1..Len(ch.fetched) : ch.fetched[k] = i
       IN  IF seen
           THEN /\ ch' = [ch EXCEPT !.pos = @ + 1]
                /\ UNCHANGED cresp
           ELSE IF r.ok
           THEN /\ ch' = [ch EXCEPT !.hasher = @ \o r.data,
                                    !.fed = Append(@, r.data),
                                    !.fetched = Append(@, i),
                                    !.pos = @ + 1]
                /\ UNCHANGED cresp
           ELSE /\ ch' = [ch EXCEPT !.pc = "idle", !.fetched = Append(@, i)]
                /\ cresp' = BlockFailedResponse(i, Elapsed(ch'.fetched))
    /\ UNCHANGED <<have, cfirst>>
    /\ UNCHANGED notChallengeVars

\* One turn of the loop over block_indices: fetch the block, feed it to the
\* hasher or return the 404 response.
ChallengeFetch ==
    /\ ch.pc = "loop"
    /\ ch.pos <= Len(ch.req.block_indices)
    /\ LET i == ch.req.block_indices[ch.pos]
           r == get_block(ch.req.cid, i)
       IN  IF r.ok
           THEN /\ ch' = [ch EXCEPT !.hasher = @ \o r.data,
                                    !.fed = Append(@, r.data),
                                    !.fetched = Append(@, i),
                                    !.pos = @ + 1]
                /\ UNCHANGED cresp
           ELSE /\ ch' = [ch EXCEPT !.pc = "idle", !.fetched = Append(@, i)]
                /\ cresp' = BlockFailedResponse(i, Elapsed(ch'.fetched))
    /\ UNCHANGED <<have, cfirst>>
    /\ UNCHANGED notChallengeVars

\* After the loop: finalize, hex-encode, return the proof.
ChallengeFinish ==
    /\ ch.pc = "loop"
    /\ ch.pos > Len(ch.req.block_indices)
    /\ LET proof == Sha256Hex(ch.hasher)
       IN  /\ cresp' = ProofResponse(proof, Elapsed(ch.fetched))
           /\ cfirst' = RecordProof(cfirst, ch.req, proof)
    /\ ch' = [ch EXCEPT !.pc = "idle"]
    /\ UNCHANGED have
    /\ UNCHANGED notChallengeVars

\* The node drops a block (unpinned content is garbage-collected) or gets
\* one (pinned content is fetched); the bytes of a block stay what they are.
BlockLost(c, i) ==
    /\ <<c, i>> \in have
    /\ have' = have \ {<<c, i>>}
    /\ UNCHANGED <<ch, cresp, cfirst>>
    /\ UNCHANGED notChallengeVars

BlockGained(c, i) ==
    /\ <<c, i>> \notin have
    /\ have' = have \cup {<<c, i>>}
    /\ UNCHANGED <<ch, cresp, cfirst>>
    /\ UNCHANGED notChallengeVars

ChallengeInit ==
    /\ have = Challenged \X BlockIndices
    /\ ch = NoChallenge
    /\ cresp = NoResponse
    /\ cfirst = NoFirst

\* start_daemon has returned after its poll loop ran out; the child printed
\* its ready marker afterwards and the reader thread has not read it yet.
DaemonStarted ==
    /\ made = {Shared}
    /\ daemon = [s \in Sups |-> IF s = Shared THEN 1 ELSE 0]
    /\ DAEMON_READY = FALSE
    /\ spc = [s \in Sups |-> "idle"]
    /\ child = [s \in Sups |-> 0]
    /\ polls = [s \in Sups |-> 0]
    /\ spawned = 1
    /\ owner = [c \in Children |-> IF c = 1 THEN Shared ELSE "none"]
    /\ alive = {1}
    /\ pipe = [c \in Children |-> IF c = 1 THEN <<"Daemon is ready">> ELSE <<>>]
    /\ printed = 1
    /\ marked = {1}
    /\ crashed = {}
    /\ deadChecks = [s \in Sups |-> 0]
    /\ stopped = [s \in Sups |-> FALSE]
    /\ dlast = DReturned(Shared, "start_daemon", TRUE, FALSE, FALSE)

\* Challenges arriving while the node's block store changes, the reader
\* thread promotes the daemon and the daemon is stopped (stop_daemon takes
\* &mut self, so it waits for a handler that holds the shared lock).
ChallengeNext ==
    \/ \E req \in ChallengeRequests : ChallengeBegin(req)
    \/ ChallengeFetch
    \/ ChallengeFinish
    \/ \E c \in Challenged, i \in BlockIndices : BlockLost(c, i)
    \/ \E c \in Challenged, i \in BlockIndices : BlockGained(c, i)
    \/ \E c \in Children : ReaderStep(c)
    \/ ch.pc = "idle" /\ StopDaemon(Shared)

(***************************************************************************)
(* Settings and earnings ledger: api.rs AgentConfig, load_config,          *)
(* save_config, update_config, add_earnings, enable_autostart and          *)
(* disable_autostart.  The handlers take no lock; each loads the file,     *)
(* changes its copy and writes the whole record back.                      *)
(***************************************************************************)
\* Option<T> values of the record and of the request bodies.
Opt(v) == [tag |-> "Some", v |-> v]

\* impl Default for AgentConfig, as the document save_config writes.
DefaultAgentConfig ==
    [tag |-> "Doc",
     hive_username |-> None, hive_posting_key_hash |-> None,
     auto_pin |-> TRUE, max_storage_gb |-> 50, auto_start |-> FALSE,
     total_earned_hbd |-> 0, challenge_count |-> 0,
     last_challenge_at |-> None,
     notify_on_challenge |-> TRUE, notify_on_milestone |-> TRUE,
     notify_daily_summary |-> TRUE]

\* The file does not exist; the file does not parse as an AgentConfig.
Missing == [tag |-> "Missing"]
Corrupt == [tag |-> "Corrupt"]

\* What load_config returns: the parsed file, or the defaults when the
\* file is missing or does not parse.
LoadConfig(file) == IF file.tag = "Doc" THEN file ELSE DefaultAgentConfig

\* What load_config leaves on disk: it writes the defaults when the file is
\* missing (the result of that save is ignored), and nothing otherwise.
FileAfterLoad(file, saved) ==
    IF file.tag = "Missing" /\ saved THEN DefaultAgentConfig ELSE file

\* amount_hbd values of a request, in whole HBD.
Amounts == {-1, 1, 2}

\* challenge_timestamp values of a request: absent, before every reading of
\* the clock, not before any.
Stamps == {None, Opt(0), Opt(MaxWall)}

\* The cumulative-earnings breakpoints.
Milestones == {1, 2}

\* notifications::check_milestone_crossed(old, new): a breakpoint the total
\* moved across, if any (the highest one), else None.
check_milestone_crossed(old, new) ==
    LET crossed == {m \in Milestones : old < m /\ m <= new}
    IN  IF crossed = {} THEN None
        ELSE Opt(CHOOSE m \in crossed : \A x \in crossed : x <= m)

\* The notifications add_earnings sends after a successful save.
EarningsNotes(rec, old_total, amount) ==
    (IF rec.notify_on_challenge THEN <<[kind |-> "challenge",
                                           amount |-> amount]>>
     ELSE <<>>)
    \o (IF rec.notify_on_milestone
           /\ check_milestone_crossed(old_total,
                                      rec.total_earned_hbd) # None
        THEN <<[kind |-> "milestone",
                milestone |-> check_milestone_crossed(
                                  old_total, rec.total_earned_hbd).v]>>
        ELSE <<>>)

\* An UpdateConfigRequest with every field absent.
NoUpdate ==
    [hive_username |-> None, hive_posting_key_hash |-> None,
     auto_pin |-> None, max_storage_gb |-> None, auto_start |-> None,
     notify_on_challenge |-> None, notify_on_milestone |-> None,
     notify_daily_summary |-> None]

\* No handler is running in the task.  The locals of a handler: config is
\* its copy of the record; loaded (history) is the record as load_config
\* returned it and req (history) the body of an update_config request.
NoLLoc == [config |-> DefaultAgentConfig, old_total |-> 0, amount |-> 0,
           stamp |-> None, at |-> 0, loaded |-> DefaultAgentConfig,
           req |-> NoUpdate]

NoLCall == [op |-> "none", status |-> 0, notes |-> <<>>]

\* A returned call: the status, the JSON body's fields and, as history, the
\* notifications the call sent.
LFailed(op, status) ==
    [op |-> op, status |-> status, success |-> FALSE, error |-> "error",
     notes |-> <<>>]

LDone(op, notes) ==
    [op |-> op, status |-> 200, success |-> TRUE, notes |-> notes]

\* The request bodies sent to update_config.
UpdateRequests ==
    {[NoUpdate EXCEPT !.auto_pin = Opt(FALSE)],
     [NoUpdate EXCEPT !.hive_username = Opt("")]}

\* A present field replaces the record's value; an empty string is stored
\* as None.
Patched(old, field) == IF field = None THEN old ELSE field.v

PatchedName(old, field) ==
    IF field = None THEN old
    ELSE IF field.v = "" THEN None ELSE Opt(field.v)

\* Variant: the request is applied to a fresh default record.
ApplyUpdateToDefaults(rec, req) ==
    [DefaultAgentConfig EXCEPT
       !.hive_username = PatchedName(rec.hive_username, req.hive_username),
       !.hive_posting_key_hash =
           PatchedName(rec.hive_posting_key_hash, req.hive_posting_key_hash),
       !.auto_pin = Patched(rec.auto_pin, req.auto_pin),
       !.max_storage_gb = Patched(rec.max_storage_gb, req.max_storage_gb),
       !.auto_start = Patched(rec.auto_start, req.auto_start),
       !.notify_on_challenge =
           Patched(rec.notify_on_challenge, req.notify_on_challenge),
       !.notify_on_milestone =
           Patched(rec.notify_on_milestone, req.notify_on_milestone),
       !.notify_daily_summary =
           Patched(rec.notify_daily_summary, req.notify_daily_summary)]

\* update_config between load_config and save_config: one `if let Some` per
\* field of the request.
ApplyUpdate(rec, req) ==
    [rec EXCEPT
       !.hive_username = PatchedName(@, req.hive_username),
       !.hive_posting_key_hash = PatchedName(@, req.hive_posting_key_hash),
       !.auto_pin = Patched(@, req.auto_pin),
       !.max_storage_gb = Patched(@, req.max_storage_gb),
       !.auto_start = Patched(@, req.auto_start),
       !.notify_on_challenge = Patched(@, req.notify_on_challenge),
       !.notify_on_milestone = Patched(@, req.notify_on_milestone),
       !.notify_daily_summary = Patched(@, req.notify_daily_summary)]

\* Variant: the current time is recorded whatever the request carries.
StampIgnored(stamp, at) == Opt(at)

\* req.challenge_timestamp.or(Some(now))
StampOr(stamp, at) == IF stamp # None THEN stamp ELSE Opt(at)

\* Variant: the amount is validated after the record has been saved.
AddEarningsLoadAdmitsAll(t, amount, stamp) ==
    /\ lpc[t] = "idle"
    /\ \E saved \in BOOLEAN :
         agentFile' = FileAfterLoad(agentFile, saved)
    /\ LET loaded == LoadConfig(agentFile)
       IN  /\ adds < MaxAdds
           /\ adds' = adds + 1
           /\ lpc' = [lpc EXCEPT ![t] = "add_save"]
           /\ lloc' = [lloc EXCEPT ![t] =
                [config |-> [loaded EXCEPT
                     !.total_earned_hbd = @ + amount,
                     !.challenge_count = @ + 1,
                     !.last_challenge_at = StampOr(stamp, wall)],
                 old_total |-> loaded.total_earned_hbd,
                 amount |-> amount, stamp |-> stamp, at |-> wall,
                 loaded |-> loaded, req |-> NoUpdate]]
           /\ UNCHANGED llast
    /\ UNCHANGED <<wall, okAdds, okSum>>
    /\ UNCHANGED notLedgerVars

\* add_earnings up to save_config: load the record, reject a negative
\* amount, else update the local copy.
AddEarningsLoad(t, amount, stamp) ==
    /\ lpc[t] = "idle"
    /\ \E saved \in BOOLEAN :
         agentFile' = FileAfterLoad(agentFile, saved)
    /\ LET loaded == LoadConfig(agentFile)
       IN  IF amount < 0
           THEN /\ llast' = LFailed("add_earnings", 400)
                /\ UNCHANGED <<lpc, lloc, adds>>
           ELSE /\ adds < MaxAdds
                /\ adds' = adds + 1
                /\ lpc' = [lpc EXCEPT ![t] = "add_save"]
                /\ lloc' = [lloc EXCEPT ![t] =
                     [config |-> [loaded EXCEPT
                          !.total_earned_hbd = @ + amount,
                          !.challenge_count = @ + 1,
                          !.last_challenge_at = StampOr(stamp, wall)],
                      old_total |-> loaded.total_earned_hbd,
                      amount |-> amount, stamp |-> stamp, at |-> wall,
                 loaded |-> loaded, req |-> NoUpdate]]
                /\ UNCHANGED llast
    /\ UNCHANGED <<wall, okAdds, okSum>>
    /\ UNCHANGED notLedgerVars

\* add_earnings from save_config on: write the record, send the
\* notifications, respond.
AddEarningsSave(t) ==
    /\ lpc[t] = "add_save"
    /\ \E ok \in BOOLEAN :
         IF ok
         THEN /\ agentFile' = lloc[t].config
              /\ llast' = [LDone("add_earnings",
                                 EarningsNotes(lloc[t].config,
                                               lloc[t].old_total,
                                               lloc[t].amount))
                           EXCEPT !.op = "add_earnings"]
              /\ okAdds' = okAdds + 1
              /\ okSum' = okSum + lloc[t].amount
         ELSE /\ llast' = LFailed("add_earnings", 500)
              /\ UNCHANGED <<agentFile, okAdds, okSum>>
    /\ lpc' = [lpc EXCEPT ![t] = "idle"]
    /\ lloc' = [lloc EXCEPT ![t] = NoLLoc]
    /\ UNCHANGED <<wall, adds>>
    /\ UNCHANGED notLedgerVars

\* update_config up to save_config.
UpdateConfigLoad(t, req) ==
    /\ lpc[t] = "idle"
    /\ \E saved \in BOOLEAN :
         agentFile' = FileAfterLoad(agentFile, saved)
    /\ lpc' = [lpc EXCEPT ![t] = "update_save"]
    /\ lloc' = [lloc EXCEPT ![t] =
         [NoLLoc EXCEPT !.config = ApplyUpdate(LoadConfig(agentFile), req),
                        !.loaded = LoadConfig(agentFile),
                        !.req = req]]
    /\ UNCHANGED <<wall, llast, adds, okAdds, okSum>>
    /\ UNCHANGED notLedgerVars

\* update_config from save_config on.
UpdateConfigSave(t) ==
    /\ lpc[t] = "update_save"
    /\ \E ok \in BOOLEAN :
         IF ok
         THEN /\ agentFile' = lloc[t].config
              /\ llast' = LDone("update_config", <<>>)
         ELSE /\ llast' = LFailed("update_config", 500)
              /\ UNCHANGED agentFile
    /\ lpc' = [lpc EXCEPT ![t] = "idle"]
    /\ lloc' = [lloc EXCEPT ![t] = NoLLoc]
    /\ UNCHANGED <<wall, adds, okAdds, okSum>>
    /\ UNCHANGED notLedgerVars

\* enable_autostart (on = TRUE) and disable_autostart (on = FALSE) up to
\* save_config: the platform call, then load the record and set the flag.
AutostartLoad(t, on) ==
    /\ lpc[t] = "idle"
    /\ \E platform \in BOOLEAN :
         IF platform
         THEN /\ \E saved \in BOOLEAN :
                   agentFile' = FileAfterLoad(agentFile, saved)
              /\ lpc' = [lpc EXCEPT ![t] = "autostart_save"]
              /\ lloc' = [lloc EXCEPT ![t] =
                   [NoLLoc EXCEPT !.config =
                      [LoadConfig(agentFile) EXCEPT !.auto_start = on]]]
              /\ UNCHANGED llast
         ELSE /\ llast' = LFailed("autostart", 500)
              /\ UNCHANGED <<agentFile, lpc, lloc>>
    /\ UNCHANGED <<wall, adds, okAdds, okSum>>
    /\ UNCHANGED notLedgerVars

\* enable_autostart / disable_autostart from save_config on; the result of
\* the save is ignored.
AutostartSave(t) ==
    /\ lpc[t] = "autostart_save"
    /\ \E ok \in BOOLEAN :
         agentFile' = IF ok THEN lloc[t].config ELSE agentFile
    /\ llast' = LDone("autostart", <<>>)
    /\ lpc' = [lpc EXCEPT ![t] = "idle"]
    /\ lloc' = [lloc EXCEPT ![t] = NoLLoc]
    /\ UNCHANGED <<wall, adds, okAdds, okSum>>
    /\ UNCHANGED notLedgerVars

\* A second of wall-clock time passes.
WallTick ==
    /\ wall < MaxWall
    /\ wall' = wall + 1
    /\ UNCHANGED <<agentFile, lpc, lloc, llast, adds, okAdds, okSum>>
    /\ UNCHANGED notLedgerVars

\* The settings files the control plane may find when it starts.
FoundSettings == {Missing, Corrupt, DefaultAgentConfig}

LedgerInitWith(files) ==
    /\ agentFile \in files
    /\ wall = 1
    /\ lpc = [t \in Tasks |-> "idle"]
    /\ lloc = [t \in Tasks |-> NoLLoc]
    /\ llast = NoLCall
    /\ adds = 0
    /\ okAdds = 0
    /\ okSum = 0

\* start_api_server has loaded the settings once: the file holds the
\* defaults.
LedgerInit == LedgerInitWith({DefaultAgentConfig})

\* The control plane serving settings requests concurrently (the earnings
\* requests carry no timestamp and the clock stands still).
LedgerNext ==
    \/ \E t \in Tasks, amount \in Amounts : AddEarningsLoad(t, amount, None)
    \/ \E t \in Tasks : AddEarningsSave(t)
    \/ \E t \in Tasks, req \in UpdateRequests : UpdateConfigLoad(t, req)
    \/ \E t \in Tasks : UpdateConfigSave(t)
    \/ \E t \in Tasks, on \in BOOLEAN : AutostartLoad(t, on)
    \/ \E t \in Tasks : AutostartSave(t)

\* No other settings handler is running.
LedgerAlone(t) == \A u \in Tasks \ {t} : lpc[u] = "idle"

\* Settings requests served one after the other.
LedgerSeqNext ==
    \/ WallTick
    \/ \E t \in Tasks, amount \in Amounts, stamp \in Stamps :
         LedgerAlone(t) /\ AddEarningsLoad(t, amount, stamp)
    \/ \E t \in Tasks : AddEarningsSave(t)
    \/ \E t \in Tasks, req \in UpdateRequests :
         LedgerAlone(t) /\ UpdateConfigLoad(t, req)
    \/ \E t \in Tasks : UpdateConfigSave(t)
    \/ \E t \in Tasks, on \in BOOLEAN :
         LedgerAlone(t) /\ AutostartLoad(t, on)
    \/ \E t \in Tasks : AutostartSave(t)

CacheInit ==
    /\ now = 0
    /\ pinset = {}
    /\ nodeVer = 0
    /\ cache = None
    /\ cacheVer = 0
    /\ doneVer = 0
    /\ pc = [t \in Tasks |-> "idle"]
    /\ loc = [t \in Tasks |-> NoLoc]
    /\ last = NoCall

TaskStep(t) ==
    \/ CheckCache(t)
    \/ FetchSize(t)
    \/ FetchPins(t)
    \/ StoreCache(t)
    \/ PinCmd(t)
    \/ UnpinCmd(t)
    \/ InvalidateStatsCache(t)

\* A supervisor on an empty repository, nothing started.
Init ==
    /\ CacheInit /\ DaemonInit /\ BootInitWith({Absent})
    /\ ChallengeInit /\ LedgerInit

\* The control plane serving requests concurrently.
CacheNext == Tick \/ \E t \in Tasks : TaskStep(t)

SpecCache == Init /\ [][CacheNext]_vars

\* One caller issuing its calls one after the other.
Alone(t) == \A u \in Tasks \ {t} : pc[u] = "idle"

CacheSeqNext ==
    \/ Tick
    \/ \E t \in Tasks : Alone(t) /\ CheckCache(t)
    \/ \E t \in Tasks : Alone(t) /\ FetchSize(t)
    \/ \E t \in Tasks : Alone(t) /\ FetchPins(t)
    \/ \E t \in Tasks : Alone(t) /\ StoreCache(t)
    \/ \E t \in Tasks : Alone(t) /\ PinCmd(t)
    \/ \E t \in Tasks : Alone(t) /\ UnpinCmd(t)
    \/ \E t \in Tasks : Alone(t) /\ InvalidateStatsCache(t)

SpecCacheSeq == Init /\ [][CacheSeqNext]_vars

\* One supervisor, its daemons and their reader threads.
SpecDaemon == Init /\ [][DaemonNext]_vars

\* The same, with the runtime's scheduling: a sleep of the poll loop elapses
\* and the task that runs start_daemon is resumed.
PollFairness ==
    \A s \in Sups : WF_vars(PollSleep(s)) /\ WF_vars(PollDone(s))

\* Starting and stopping the daemon while its children, which stay up until
\* they are stopped, print and are read.
StartNext ==
    \/ \E s \in Sups : StartDaemon(s)
    \/ \E s \in Sups : PollSleep(s)
    \/ \E s \in Sups : PollDone(s)
    \/ \E s \in Sups : StopDaemon(s)
    \/ \E c \in Children : ChildPrints(c)
    \/ \E c \in Children : ReaderStep(c)

\* The reader thread of a child is an OS thread of its own, blocked on the
\* pipe: a line that is in the pipe is read.
ReaderFairness == \A c \in Children : WF_vars(ReaderStep(c))

SpecStartFair == Init /\ [][StartNext]_vars /\ PollFairness

SpecReaderFair == Init /\ [][StartNext]_vars /\ ReaderFairness

\* initialize() on whatever repository the supervisor finds.
BootInit ==
    /\ CacheInit /\ DaemonInit /\ BootInitWith(FoundConfigs)
    /\ ChallengeInit /\ LedgerInit

SpecBoot == BootInit /\ [][BootNext]_vars

\* initialize() on a repository path that starts empty.
SpecBootEmpty == Init /\ [][BootNext]_vars

\* The challenge responder, with the daemon not started or started.
\* A process that constructs two KuboManager instances.
TwoSpecInit ==
    /\ CacheInit /\ BootInitWith({Absent}) /\ ChallengeInit /\ LedgerInit
    /\ DaemonInitWith(Sups)

SpecTwo == TwoSpecInit /\ [][StartNext]_vars

ChallengeSpecInit ==
    /\ CacheInit /\ BootInitWith({Absent}) /\ ChallengeInit /\ LedgerInit
    /\ (DaemonInit \/ DaemonStarted)

SpecChallenge == ChallengeSpecInit /\ [][ChallengeNext]_vars

\* The request bodies of update_config with fields of every kind present,
\* alone and together, and with empty strings.
UpdateBodies ==
    {NoUpdate,
     [NoUpdate EXCEPT !.hive_username = Opt("alice"),
                      !.hive_posting_key_hash = Opt("")],
     [NoUpdate EXCEPT !.hive_username = Opt(""),
                      !.hive_posting_key_hash = Opt("h1")],
     [NoUpdate EXCEPT !.auto_pin = Opt(FALSE)],
     [NoUpdate EXCEPT !.max_storage_gb = Opt(10), !.auto_start = Opt(TRUE)],
     [NoUpdate EXCEPT !.notify_on_milestone = Opt(FALSE)],
     [hive_username |-> Opt("bob"), hive_posting_key_hash |-> Opt("h2"),
      auto_pin |-> Opt(TRUE), max_storage_gb |-> Opt(20),
      auto_start |-> Opt(FALSE), notify_on_challenge |-> Opt(FALSE),
      notify_on_milestone |-> Opt(TRUE), notify_daily_summary |-> Opt(FALSE)]}

\* A settings file of an account that has earned: every field away from its
\* default.
EarnedSettings ==
    [tag |-> "Doc",
     hive_username |-> Opt("carol"), hive_posting_key_hash |-> Opt("h0"),
     auto_pin |-> FALSE, max_storage_gb |-> 5, auto_start |-> TRUE,
     total_earned_hbd |-> 2, challenge_count |-> 3,
     last_challenge_at |-> Opt(1),
     notify_on_challenge |-> FALSE, notify_on_milestone |-> FALSE,
     notify_daily_summary |-> FALSE]

\* update_config requests served one after the other.
UpdateNext ==
    \/ \E t \in Tasks, req \in UpdateBodies :
         LedgerAlone(t) /\ UpdateConfigLoad(t, req)
    \/ \E t \in Tasks : UpdateConfigSave(t)

UpdateSpecInit ==
    /\ CacheInit /\ DaemonInit /\ BootInitWith({Absent}) /\ ChallengeInit
    /\ LedgerInitWith(FoundSettings \cup {EarnedSettings})

SpecUpdate == UpdateSpecInit /\ [][UpdateNext]_vars

\* Settings requests served concurrently on a readable settings file.
SpecLedger == Init /\ [][LedgerNext]_vars

\* The settings handlers on whatever settings file they find.
LedgerSpecInit ==
    /\ CacheInit /\ DaemonInit /\ BootInitWith({Absent}) /\ ChallengeInit
    /\ LedgerInitWith(FoundSettings)

\* Settings requests served one at a time.
SpecLedgerSeq == LedgerSpecInit /\ [][LedgerSeqNext]_vars

(***************************************************************************)
(* Claims about the status cache.                                          *)
(***************************************************************************)
AllIdle == \A t \in Tasks : pc[t] = "idle"

\* The last call to return was a pin or an unpin, and it returned Ok.
PinReturned == last.op \in {"pin", "unpin"} /\ last.ok

\* The last call to return was a stats read, and it returned Ok.
StatsReturned == last.op = "stats" /\ last.ok

\* This step returns a stats read.
StatsReturns == last' # last /\ last'.op = "stats"

\* C1: with calls issued one after the other, from the Ok return of a pin or
\* unpin until the next call returns the cache cell is absent, and a stats
\* read that returns next has run fetch_repo_stats: it never answers from the
\* snapshot the pin found, however young that snapshot was.
C1_PinForcesRefetch ==
    /\ [](PinReturned => cache = None)
    /\ [][PinReturned /\ StatsReturns => last'.fetched]_vars

\* A stats read, past its fetch, that follows a pin which cleared a snapshot
\* younger than the TTL.
C1_Witness ==
    /\ PinReturned
    /\ last.found = "fresh"
    /\ \E t \in Tasks : pc[t] = "store"

\* C2: a stats read that starts after a pin/unpin has returned Ok never
\* returns a snapshot fetched before that pin/unpin reached the node.
C2_NoStaleRead == StatsReturned => last.ver >= last.need

\* C3: two stats reads one after the other with no pin/unpin in between.
\* While the snapshot is younger than 30 s the second read starts no fetch
\* and returns the snapshot the first read returned, leaving the cell alone
\* (one fetch for the two reads); once the snapshot is 30 s old or older the
\* second read cannot answer from the cell, and the fetch it runs replaces
\* the snapshot and stamps it with the time of the store.
C3_TtlWindow ==
    [][/\ (StatsReturned /\ AllIdle /\ cache.tag = "Some"
             /\ now - cache.cached_at < 30)
          => /\ \A t \in Tasks : pc'[t] # "fetch_size"
             /\ StatsReturns => /\ last'.ok
                                /\ ~last'.fetched
                                /\ last'.stats = last.stats
                                /\ cache' = cache
       /\ (StatsReturned /\ AllIdle /\ cache.tag = "Some"
             /\ now - cache.cached_at >= 30)
          => ~(StatsReturns /\ ~last'.fetched)
       /\ \A t \in Tasks :
            (StatsReturned /\ pc[t] = "store" /\ pc'[t] = "idle")
            => /\ last'.ok /\ last'.fetched
               /\ cache' = Some(last'.stats, now)
               /\ last'.stats = loc[t].stats
      ]_vars

\* A second read that found the first read's snapshot expired and replaced
\* it.
C3_Witness ==
    /\ StatsReturned
    /\ last.fetched
    /\ last.found = "expired"
    /\ cache = Some(last.stats, now)
    /\ now >= 30

\* A second read answered from a snapshot that is 29 s old.
C3_WitnessHit ==
    /\ StatsReturned
    /\ ~last.fetched
    /\ cache.tag = "Some"
    /\ now - cache.cached_at = 29

\* C4: a stats read whose fetch fails returns the error and leaves the cache
\* cell exactly as the call found it: absent stays absent, an expired
\* snapshot keeps its stats and its capture time.
C4_FetchFailureKeepsCache ==
    [][\A t \in Tasks :
         (pc[t] \in {"fetch_size", "fetch_pins"} /\ pc'[t] = "idle")
         => /\ last'.op = "stats" /\ ~last'.ok
            /\ cache' = cache
            /\ cache' = loc[t].cache0
      ]_vars

\* A failed read that met an expired snapshot, which is still in the cell.
C4_Witness ==
    /\ last.op = "stats" /\ ~last.ok
    /\ last.found = "expired"
    /\ cache.tag = "Some"
    /\ now - cache.cached_at >= 30

(***************************************************************************)
(* Claims about the daemon lifecycle.                                      *)
(***************************************************************************)
\* The children of supervisor s whose process is running.
LiveChildren(s) == {c \in alive : owner[c] = s}

\* This step returns call op on supervisor s.
DReturns(s, op) == dlast' # dlast /\ dlast'.sup = s /\ dlast'.op = op

\* C5: is_running() is true only if a child is tracked and the flag is set;
\* it is false while the supervisor has spawned nothing, and false while the
\* tracked child has printed no ready marker.
C5_ReadinessGating ==
    \A s \in made :
      /\ IsRunning(s) => (daemon[s] # 0 /\ DAEMON_READY)
      /\ spawned = 0 => ~IsRunning(s)
      /\ (daemon[s] # 0 /\ daemon[s] \notin marked) => ~IsRunning(s)

\* C6: start_daemon on a supervisor that tracks a child returns Ok and spawns
\* nothing, and a supervisor never has two of its children running.
C6_AtMostOneChild ==
    /\ [](\A s \in made : Cardinality(LiveChildren(s)) <= 1)
    /\ [][\A s \in made :
            (daemon[s] # 0 /\ DReturns(s, "start_daemon"))
            => /\ dlast'.ok
               /\ spawned' = spawned
               /\ alive' = alive
               /\ daemon' = daemon
         ]_vars

\* A start_daemon that found the child of an earlier start_daemon tracked
\* and running, and returned without spawning.
C6_Witness ==
    /\ dlast = DReturned("s1", "start_daemon", TRUE, TRUE, FALSE)
    /\ spawned = 1
    /\ daemon["s1"] = 1
    /\ alive = {1}

\* C7: stop_daemon with no tracked child returns Ok and changes nothing;
\* with a tracked child it leaves the child exited, the flag false and the
\* handle dropped. From its return until the next start_daemon call
\* is_running() is false.
C7_StopDaemon ==
    /\ [](\A s \in made : stopped[s] => ~IsRunning(s))
    /\ [][\A s \in made :
            DReturns(s, "stop_daemon")
            => /\ dlast'.ok
               /\ daemon'[s] = 0
               /\ IF daemon[s] = 0
                  THEN /\ dlast'.noop
                       /\ UNCHANGED <<daemon, DAEMON_READY, alive, pipe, spc,
                                      spawned>>
                  ELSE /\ daemon[s] \notin alive'
                       /\ alive' = alive \ {daemon[s]}
                       /\ ~DAEMON_READY'
         ]_vars

\* A second stop_daemon right after a first one that stopped a ready
\* daemon.
C7_Witness ==
    /\ dlast = DReturned("s1", "stop_daemon", TRUE, TRUE, FALSE)
    /\ stopped["s1"]
    /\ spawned = 1 /\ alive = {} /\ crashed = {}
    /\ 1 \in marked

\* C8: once the tracked child has exited on its own, the first is_running()
\* call reconciles the handle, so from the second call on is_running()
\* answers false.
C8_CrashReconciled ==
    \A s \in made :
      (dlast.sup = s /\ dlast.op = "is_running" /\ deadChecks[s] >= 2)
      => ~dlast.val

\* C9: once a supervisor is dropped none of the children it spawned is
\* running.
C9_NoOrphan ==
    \A s \in made : spc[s] = "dropped" => LiveChildren(s) = {}

\* A supervisor dropped while it tracked a running child that had printed no
\* ready marker.
C9_Witness ==
    /\ spc["s1"] = "dropped"
    /\ dlast = DReturned("s1", "drop", TRUE, FALSE, FALSE)
    /\ spawned = 1 /\ marked = {} /\ crashed = {}
    /\ ~DAEMON_READY

(***************************************************************************)
(* Claims about the repository bootstrap.                                  *)
(***************************************************************************)
\* The call that returned last is an initialize() that returned Ok, and the
\* repository was not touched since.
InitializedOk == ilast.op = "initialize" /\ ilast.ok

\* C10: an initialize() right after an initialize() that returned Ok leaves
\* the peer identity as the first call set it, does not run `ipfs init` and
\* does not write the config document; it returns Ok unless reading the
\* document fails.
C10_InitializeIdempotent ==
    [][(InitializedOk /\ icalls' = icalls + 1)
       => /\ ilast'.ok \/ ilast'.err = "read_peer"
          /\ peer_id' = peer_id
          /\ initRuns' = initRuns
          /\ cfgWrites' = cfgWrites
          /\ config' = config
      ]_vars

\* Two initialize() calls in a row on a repository that was empty: the
\* first bootstrapped it, the second returned Ok with the same identity.
C10_Witness ==
    /\ InitializedOk
    /\ icalls = 2 /\ initRuns = 1 /\ cfgWrites = 1
    /\ peer_id \in PeerIds
    /\ config # Absent /\ config.PeerID = peer_id

\* The config document holds the four groups of desktop settings.
HasDesktopSettings(doc) ==
    /\ doc # Absent
    /\ doc.cors = "desktop"
    /\ doc.storage = "desktop"
    /\ doc.addresses = "desktop"
    /\ doc.connmgr = "desktop"

\* C11: starting from an empty repository path, whenever initialize() has
\* returned Ok the peer identity is populated and the config document holds
\* the desktop settings, whatever initialize() calls came before.
C11_InitializedHasDesktopConfig ==
    InitializedOk => (peer_id # "none" /\ HasDesktopSettings(config))

(***************************************************************************)
(* Claims about the challenge responder.                                   *)
(***************************************************************************)
\* A step in which handle_challenge starts on a request (and, when the
\* daemon is not running, also returns).
ChallengeBegins == ch.pc = "idle" /\ ch' # ch

\* A step in which the handler's loop calls get_block.
ChallengeFetches ==
    ch.pc = "loop" /\ ch.pos <= Len(ch.req.block_indices) /\ ch' # ch

\* C12: a challenge that arrives while is_running() is false is answered 503
\* with success false, an empty proof and a latency_ms field, and the handler
\* returns without fetching any block.
C12_NotRunningRefused ==
    [][(ChallengeBegins /\ ~(daemon[Shared] # 0 /\ DAEMON_READY))
         => /\ cresp'.status = 503
            /\ cresp'.success = FALSE
            /\ cresp'.proof = ""
            /\ "latency_ms" \in DOMAIN cresp'
            /\ ch'.pc = "idle"
            /\ ch'.fetched = <<>>]_vars

C12_Witness ==
    /\ cresp.status = 503
    /\ ch.req.block_indices # <<>>
    /\ daemon[Shared] # 0
    /\ <<ch.req.cid, ch.req.block_indices[1]>> \in have

\* C13: when get_block fails at some position of block_indices the handler
\* returns at once: status 404, success false, empty proof, an error naming
\* the failed index, a latency_ms field; the blocks fetched are those up to
\* the failed position and no later one.
C13_FetchFailureAborts ==
    /\ [](cresp.status = 404
            => /\ ch.pc = "idle"
               /\ cresp.success = FALSE
               /\ cresp.proof = ""
               /\ "latency_ms" \in DOMAIN cresp
               /\ ch.fetched # <<>>
               /\ ch.fetched =
                    SubSeq(ch.req.block_indices, 1, Len(ch.fetched))
               /\ cresp.error =
                    <<"Failed to fetch block", ch.fetched[Len(ch.fetched)]>>)
    /\ [][(ChallengeFetches
             /\ <<ch.req.cid, ch.req.block_indices[ch.pos]>> \notin have)
            => /\ cresp'.status = 404
               /\ cresp'.error = <<"Failed to fetch block",
                                   ch.req.block_indices[ch.pos]>>
               /\ ch'.pc = "idle"
               /\ Len(ch'.fetched) = ch.pos]_vars

C13_Witness ==
    /\ cresp.status = 404
    /\ Len(ch.fetched) = 2
    /\ Len(ch.req.block_indices) > 1

\* The concatenation of a list of byte strings, from the last one back.
RECURSIVE Flatten(_)
Flatten(chunks) == IF chunks = <<>> THEN <<>>
                   ELSE Head(chunks) \o Flatten(Tail(chunks))

\* The blocks a request names, in the order of its block_indices.
NamedBlocks(req, n) ==
    [k \in 1..n |-> BlockData(req.cid, req.block_indices[k])]

\* C14: the hasher is fed the salt first and then the bytes of each named
\* block in the order of block_indices, one fetch per occurrence of an index;
\* a returned proof is the digest of the salt followed by those blocks.
C14_SaltThenBlocksInOrder ==
    /\ ch.pc = "loop"
         => /\ ch.fed = <<ch.req.salt>> \o NamedBlocks(ch.req, ch.pos - 1)
            /\ ch.fetched = SubSeq(ch.req.block_indices, 1, ch.pos - 1)
    /\ cresp.status = 200
         => /\ ch.fetched = ch.req.block_indices
            /\ ch.fed = <<ch.req.salt>>
                          \o NamedBlocks(ch.req, Len(ch.req.block_indices))
            /\ cresp.proof = Sha256Hex(Flatten(ch.fed))
            /\ cresp.success = TRUE

C14_Witness ==
    /\ cresp.status = 200
    /\ Len(ch.req.block_indices) = 2
    /\ ch.req.block_indices[1] = ch.req.block_indices[2]

IsReordering(a, b) ==
    /\ Len(a) = Len(b)
    /\ \A i \in BlockIndices :
         Cardinality({k \in 1..Len(a) : a[k] = i})
           = Cardinality({k \in 1..Len(b) : b[k] = i})

\* C16: when a proved challenge names the blocks of the first proved
\* challenge in another order, and the two orders put blocks with different
\* bytes at some position, the bytes fed to the hasher differ.
C16_OrderSensitive ==
    (/\ cresp.status = 200
     /\ cfirst # NoFirst
     /\ ch.req.cid = cfirst.req.cid
     /\ ch.req.salt = cfirst.req.salt
     /\ IsReordering(ch.req.block_indices, cfirst.req.block_indices)
     /\ \E k \in 1..Len(ch.req.block_indices) :
          BlockData(ch.req.cid, ch.req.block_indices[k])
            # BlockData(ch.req.cid, cfirst.req.block_indices[k]))
    => Sha256Hex(ch.hasher) # cfirst.proof

(***************************************************************************)
(* Claims about the settings file and the earnings ledger.                 *)
(***************************************************************************)
\* The ledger fields of an AgentConfig.
LedgerOf(rec) == <<rec.total_earned_hbd, rec.challenge_count,
                   rec.last_challenge_at>>

\* A step in which add_earnings is called with a negative amount: the call
\* is refused, or it goes on to save_config.
NegativeAmountCall ==
    \/ /\ lpc' = lpc /\ wall' = wall
       /\ llast'.op = "add_earnings" /\ llast'.status = 400
    \/ \E t \in Tasks : /\ lpc[t] = "idle" /\ lpc'[t] = "add_save"
                        /\ lloc'[t].amount < 0

\* A step in which add_earnings returns 200 in task t.
EarningsAdded(t) ==
    /\ lpc[t] = "add_save" /\ lpc'[t] = "idle"
    /\ llast'.op = "add_earnings" /\ llast'.status = 200

\* C17: add_earnings with a negative amount returns 400 with success false,
\* sends no notification and leaves the persisted record as it was: an
\* existing file is not written, and total, count and last-challenge
\* timestamp read back the same.
C17_NegativeAmountRejected ==
    [][NegativeAmountCall
         => /\ llast'.status = 400
            /\ llast'.success = FALSE
            /\ llast'.notes = <<>>
            /\ lpc' = lpc
            /\ agentFile.tag # "Missing" => agentFile' = agentFile
            /\ LedgerOf(LoadConfig(agentFile'))
                 = LedgerOf(LoadConfig(agentFile))
            /\ UNCHANGED <<okAdds, okSum>>]_vars

C17_Witness ==
    /\ llast.op = "add_earnings" /\ llast.status = 400
    /\ agentFile.tag = "Doc"
    /\ agentFile.challenge_count > 0
    /\ agentFile.last_challenge_at # None

\* C18: once the add_earnings requests have returned, the persisted
\* challenge_count has grown by the number of requests that returned 200
\* and the persisted total by the sum of their amounts.
C18_NoLostAddition ==
    (/\ \A t \in Tasks : lpc[t] = "idle"
     /\ agentFile.tag = "Doc")
    => /\ agentFile.challenge_count = okAdds
       /\ agentFile.total_earned_hbd = okSum

\* C19: on a readable settings file no step writes back a smaller total
\* earned or a smaller challenge count than the persisted one.
C19_TotalNeverDecreases ==
    [][(agentFile.tag = "Doc" /\ agentFile'.tag = "Doc")
         => /\ agentFile'.total_earned_hbd >= agentFile.total_earned_hbd
            /\ agentFile'.challenge_count >= agentFile.challenge_count]_vars

\* The later of a supplied timestamp and the time the handler read.
LaterOf(stamp, at) ==
    IF stamp = None THEN Opt(at)
    ELSE IF stamp.v >= at THEN stamp ELSE Opt(at)

\* C20 as stated: a successful add_earnings records the later of the
\* supplied timestamp and the current time, and the current time when no
\* timestamp is supplied.
C20_RecordsLaterOfStampAndNow ==
    [][\A t \in Tasks :
         EarningsAdded(t)
           => agentFile'.last_challenge_at
                = LaterOf(lloc[t].stamp, lloc[t].at)]_vars

\* C20 amended: a successful add_earnings records the supplied timestamp
\* whenever one is supplied, be it earlier or later than the current time,
\* and the current time when none is supplied.
C20_RecordsStampElseNow ==
    [][\A t \in Tasks :
         EarningsAdded(t)
           => agentFile'.last_challenge_at
                = (IF lloc[t].stamp = None THEN Opt(lloc[t].at)
                   ELSE lloc[t].stamp)]_vars

C20_Witness ==
    /\ llast.op = "add_earnings" /\ llast.status = 200
    /\ agentFile.tag = "Doc"
    /\ agentFile.last_challenge_at = Opt(0)
    /\ agentFile.challenge_count = 2

\* The breakpoints a total moving from old to new crosses.
CrossedMilestones(old, new) == {m \in Milestones : old < m /\ m <= new}

\* The milestone notifications among the notifications a call sent.
MilestoneNotes(notes) ==
    {k \in 1..Len(notes) : notes[k].kind = "milestone"}

\* C21: a successful add_earnings that moves the total across k breakpoints
\* sends exactly k milestone notifications (milestone notifications
\* enabled), one for each breakpoint crossed.
C21_OneNotePerMilestone ==
    [][\A t \in Tasks :
         (EarningsAdded(t) /\ lloc[t].config.notify_on_milestone)
           => /\ Cardinality(MilestoneNotes(llast'.notes))
                   = Cardinality(CrossedMilestones(
                         lloc[t].old_total,
                         lloc[t].config.total_earned_hbd))
              /\ \A m \in CrossedMilestones(
                              lloc[t].old_total,
                              lloc[t].config.total_earned_hbd) :
                   \E k \in MilestoneNotes(llast'.notes) :
                     llast'.notes[k].milestone = m]_vars

(***************************************************************************)
(* Claims about the control plane's responses.                             *)
(***************************************************************************)
\* The HTTP response api.rs builds from the result of the supervisor call:
\* get_status takes get_repo_stats().unwrap_or_default() into a 200 body;
\* pin_content and unpin_content answer 200 or 500.
HttpResponse(call) ==
    IF call.op = "stats"
    THEN [status |-> 200,
          ipfs_repo_size |-> IF call.ok THEN call.stats.repo_size
                             ELSE NoStats.repo_size,
          num_pinned_files |-> IF call.ok THEN call.stats.num_pins
                               ELSE NoStats.num_pins]
    ELSE IF call.ok
    THEN [status |-> 200, success |-> TRUE]
    ELSE [status |-> 500, success |-> FALSE, error |-> "error"]

\* C22: when the subprocess behind a status read, a pin or an unpin has
\* failed, the response is not a 2xx answer: its body has success false and
\* an error string.
C22_FailuresAreNot2xx ==
    (last.op # "none" /\ ~last.ok)
    => /\ HttpResponse(last).status \notin 200..299
       /\ "success" \in DOMAIN HttpResponse(last)
       /\ HttpResponse(last).success = FALSE
       /\ "error" \in DOMAIN HttpResponse(last)

(***************************************************************************)
(* Claims about the poll loop and the readiness flag.                      *)
(***************************************************************************)
\* C23: start_daemon() always returns.  Its loop sleeps at most PollAttempts
\* times and never after it has seen the flag set; when it ends, on the
\* flag or on the budget, the call returns Ok with the spawned child as the
\* tracked process and kills nothing.
C23_StartDaemonTerminates ==
    /\ [](\A s \in Sups : polls[s] <= PollAttempts)
    /\ [][\A s \in Sups :
            /\ polls'[s] > polls[s] => ~DAEMON_READY
            /\ (spc[s] = "polling" /\ spc'[s] # "polling")
                 => /\ dlast' = DReturned(s, "start_daemon", TRUE, FALSE, FALSE)
                    /\ child[s] # 0
                    /\ daemon'[s] = child[s]
                    /\ alive' = alive
                    /\ (DAEMON_READY \/ polls[s] = PollAttempts)]_vars
    /\ \A s \in Sups : (spc[s] = "polling") ~> (spc[s] = "idle")

\* start_daemon has returned on the budget: its child never printed a marker
\* and is the tracked process, alive.
C23_Witness ==
    /\ dlast = DReturned(Shared, "start_daemon", TRUE, FALSE, FALSE)
    /\ daemon[Shared] # 0
    /\ daemon[Shared] \in alive
    /\ marked = {}
    /\ ~DAEMON_READY
    /\ spc[Shared] = "idle"

(***************************************************************************)
(* Claims about the lock on the shared supervisor.                         *)
(***************************************************************************)
\* Task t is inside pin_content or unpin_content, its guard (kubo.read())
\* held.
InPinOrUnpin(t) == pc[t] = "invalidate" /\ loc[t].op \in {"pin", "unpin"}

\* Task t is inside a handler that holds a guard of the supervisor lock
\* (kubo.read() in get_status, pin_content and unpin_content).
InHandler(t) == pc[t] # "idle"

\* C24: pin and unpin hold the supervisor lock exclusively, status reads hold
\* it shared: while a task is inside a pin or unpin no other task is inside
\* a status read or another pin or unpin.
C24_PinUnpinExclusive ==
    \A t \in Tasks :
      InPinOrUnpin(t)
        => \A u \in Tasks \ {t} : ~InHandler(u)

(***************************************************************************)
(* Claims about update_config.                                             *)
(***************************************************************************)
SettingFields == {"auto_pin", "max_storage_gb", "auto_start",
                  "notify_on_challenge", "notify_on_milestone",
                  "notify_daily_summary"}
NameFields == {"hive_username", "hive_posting_key_hash"}
LedgerFields == {"total_earned_hbd", "challenge_count", "last_challenge_at"}

\* Task t's update_config returns 200 in this step.
UpdateSaved(t) ==
    /\ lpc[t] = "update_save" /\ lpc'[t] = "idle"
    /\ llast'.status = 200

\* C25: the record update_config saves differs from the record it loaded
\* only in the fields present in the request: an absent field keeps the
\* loaded value, a present setting takes the request's value, a present
\* username or credential hash is stored as given, or as absent when it is
\* the empty string, and the ledger fields are the loaded ones.
C25_UpdateChangesPresentFieldsOnly ==
    [][\A t \in Tasks :
         UpdateSaved(t)
           => LET req == lloc[t].req
                  old == lloc[t].loaded
              IN  /\ agentFile'.tag = "Doc"
                  /\ \A f \in SettingFields \cup NameFields :
                       req[f] = None => agentFile'[f] = old[f]
                  /\ \A f \in SettingFields :
                       req[f] # None => agentFile'[f] = req[f].v
                  /\ \A f \in NameFields :
                       req[f] # None
                         => agentFile'[f] = IF req[f].v = "" THEN None
                                            ELSE Opt(req[f].v)
                  /\ \A f \in LedgerFields : agentFile'[f] = old[f]]_vars

\* An update that carried an empty username has been saved over the record
\* of an account that has earned: the username is gone, the credential hash
\* is the new one and the ledger is the one loaded.
C25_Witness ==
    /\ llast.op = "update_config" /\ llast.status = 200
    /\ agentFile.tag = "Doc"
    /\ agentFile.hive_username = None
    /\ agentFile.hive_posting_key_hash = Opt("h1")
    /\ agentFile.auto_pin = EarnedSettings.auto_pin
    /\ agentFile.total_earned_hbd = EarnedSettings.total_earned_hbd
    /\ agentFile.challenge_count = EarnedSettings.challenge_count
    /\ agentFile.last_challenge_at = EarnedSettings.last_challenge_at

(***************************************************************************)
(* Claims about the scope and the writers of the readiness flag.           *)
(***************************************************************************)
\* The step is an operation of instance s itself: its start_daemon or
\* stop_daemon, or the reader thread of one of its children taking a line.
OwnStep(s) ==
    \/ spc'[s] # spc[s]
    \/ daemon'[s] # daemon[s]
    \/ stopped'[s] # stopped[s]
    \/ dlast'.sup = s /\ dlast' # dlast
    \/ \E c \in Children : /\ owner[c] = s
                             /\ pipe[c] # <<>>
                             /\ pipe'[c] = Tail(pipe[c])

\* C26: readiness belongs to one instance: the answer of is_running() on an
\* instance changes only in a step of that instance, never through the
\* marker of another instance's child or another instance's stop_daemon.
C26_ReadinessPerInstance ==
    [][\A s \in Sups :
         IsRunning(s)' # IsRunning(s) => OwnStep(s)]_vars

\* Child c is the child its supervisor tracks or is polling for; any other
\* spawned child of a live supervisor has been taken by stop_daemon.
CurrentChild(c) == \E s \in Sups : daemon[s] = c \/ child[s] = c

\* The reader thread of child c takes a ready marker in this step.
ReadsMarker(c) ==
    /\ pipe[c] # <<>>
    /\ IsReadyLine(Head(pipe[c]))
    /\ pipe'[c] = Tail(pipe[c])

\* C27: after stop_daemon() the flag stays false until a child of a later
\* start_daemon() prints a marker: the flag is raised only by a marker of
\* the child its supervisor currently tracks or polls for, never by output
\* of a stopped child, and a poll loop that ends before its budget ends on
\* a marker of its own child.
C27_StoppedChildCannotSetFlag ==
    [][/\ (~DAEMON_READY /\ DAEMON_READY')
           => \E c \in Children : CurrentChild(c) /\ ReadsMarker(c)
       /\ \A s \in Sups :
            (spc[s] = "polling" /\ spc'[s] = "idle"
               /\ polls[s] < PollAttempts)
              => child[s] \in marked]_vars

\* Instance s tracks child c, started but not confirmed ready, and c has
\* printed a ready marker: start_daemon returned before the marker was
\* read.
LateMarker(s, c) ==
    /\ c # 0 /\ daemon[s] = c
    /\ ~DAEMON_READY
    /\ c \in marked

\* C28: a tracked child whose marker comes after start_daemon() returned is
\* still promoted: unless it is stopped, is_running() becomes true, and the
\* step that makes it true is a line read by a reader thread, not a call
\* of start_daemon().
C28_LatePromotion ==
    /\ \A c \in Children :
         LateMarker(Shared, c) ~> (IsRunning(Shared) \/ daemon[Shared] # c)
    /\ [][\A s \in Sups :
            (daemon[s] # 0 /\ daemon'[s] = daemon[s]
               /\ ~IsRunning(s) /\ IsRunning(s)')
              => /\ \E c \in Children : ReadsMarker(c)
                 /\ spc' = spc /\ dlast' = dlast]_vars

\* The first child ever started is tracked after a start_daemon() that used
\* up its budget (the flag has never been set), and its marker is in the
\* pipe, not yet read.
C28_Witness ==
    /\ spawned = 1
    /\ LateMarker(Shared, 1)
    /\ \E k \in 1..Len(pipe[1]) : IsReadyLine(pipe[1][k])
    /\ dlast = DReturned(Shared, "start_daemon", TRUE, FALSE, FALSE)

====
